---- MODULE Spec2Model ----
(***************************************************************************)
(* A model of the go-transform engine (src/transform.go): the Type         *)
(* Unwrapper (extractTypeInternal), the Namespace Resolver                 *)
(* (getStructFieldOKInternal), the top-level entry point StructCtx with    *)
(* its sync.Pool of scratch contexts, and TransformErrors.Error().         *)
(*                                                                         *)
(* Go strings are sequences of one-character strings.  reflect.Value       *)
(* handles are addresses into a heap of cells (0 is the zero Value, whose  *)
(* Kind is Invalid), so that pointer/interface layers may form cycles.     *)
(***************************************************************************)
EXTENDS Integers, Sequences, FiniteSets, TLC

VARIABLES
    heap,        \* the value graph: address -> cell
    ustart,      \* extractTypeInternal: the handle it was called with
    ucur,        \* extractTypeInternal: local `current`
    unullable,   \* extractTypeInternal: local `nullable`
    ukind,       \* extractTypeInternal: the returned kind
    uiters,      \* extractTypeInternal: passes through the BEGIN label
    upc,         \* extractTypeInternal: "run" | "done"
    root,        \* getStructFieldOKInternal: the handle it was called with
    hops,        \* the hop list the namespace was written from
    val,         \* getStructFieldOKInternal: parameter/local `val`
    namespace,   \* getStructFieldOKInternal: parameter/local `namespace`
    res,         \* getStructFieldOKInternal: named results
    rpc,         \* getStructFieldOKInternal: "run" | "ret" | "panic" | "fault"
    pool,        \* sync.Pool: the idle scratch contexts
    ctxs,        \* scratch context id -> *transform
    pc,          \* caller -> position inside StructCtx
    arg,         \* caller -> argument s of the running call
    mem,         \* caller -> field values of the struct s refers to
    held,        \* caller -> scratch context checked out (0: none)
    call,        \* caller -> what the running call passed to transformStruct
    ret,         \* caller -> what the last call returned
    elist,       \* TransformErrors: the renderings of its FieldErrors
    eout,        \* what Error() returned
    epc,         \* "call" | "done"
    tagName,        \* Transform.tagName
    tagNameFunc,    \* Transform.tagNameFunc
    hasTagNameFunc, \* Transform.hasTagNameFunc
    transformtions, \* Transform.transformtions: the registry map (or the nil map)
    gcall,          \* the last registerTransformer call: tag, fn, registry before it
    gret            \* how that call ended

vars == <<heap, ustart, ucur, unullable, ukind, uiters, upc,
          root, hops, val, namespace, res, rpc,
          pool, ctxs, pc, arg, mem, held, call, ret,
          elist, eout, epc,
          tagName, tagNameFunc, hasTagNameFunc, transformtions, gcall, gret>>

uvars == <<ustart, ucur, unullable, ukind, uiters, upc>>
rvars == <<root, hops, val, namespace, res, rpc>>
pvars == <<pool, ctxs, pc, arg, mem, held, call, ret>>
evars == <<elist, eout, epc>>
tvars == <<tagName, tagNameFunc, hasTagNameFunc, transformtions, gcall, gret>>

(***************************************************************************)
(* Bounds                                                                  *)
(***************************************************************************)
MaxCells == 3    \* cells of a wrapper heap (SpecUnwrap)
MaxHops == 2     \* hops of a namespace (SpecResolve)
MaxCtx == 2      \* scratch contexts alive at once (SpecPool)
MaxErrs == 3     \* FieldErrors in a TransformErrors list (SpecErr)

(***************************************************************************)
(* Go strings                                                              *)
(***************************************************************************)
namespaceSeparator == "."
leftBracket == "["
rightBracket == "]"

Digits == <<"0", "1", "2", "3", "4", "5", "6", "7", "8", "9">>

\* strings.Index(s, sep) for a one-byte sep: 0-based, -1 when absent
RECURSIVE IndexFrom(_, _, _)
IndexFrom(s, sep, i) ==
    IF i > Len(s) THEN -1
    ELSE IF s[i] = sep THEN i - 1
    ELSE IndexFrom(s, sep, i + 1)

StringsIndex(s, sep) == IndexFrom(s, sep, 1)

\* s[i:j] is a run-time fault unless 0 <= i <= j <= len(s)
SliceOK(s, i, j) == 0 <= i /\ i <= j /\ j <= Len(s)

GoSlice(s, i, j) == SubSeq(s, i + 1, j)

IsDigit(c) == \E d \in 1..10 : Digits[d] = c

DigitVal(c) == (CHOOSE d \in 1..10 : Digits[d] = c) - 1

RECURSIVE DecVal(_)
DecVal(s) ==
    IF s = <<>> THEN 0
    ELSE 10 * DecVal(SubSeq(s, 1, Len(s) - 1)) + DigitVal(s[Len(s)])

AllDigits(s) == s # <<>> /\ \A i \in 1..Len(s) : IsDigit(s[i])

\* strconv.Atoi with its error dropped: a syntax error yields 0
Atoi(s) ==
    IF AllDigits(s) THEN DecVal(s)
    ELSE IF s # <<>> /\ s[1] = "+" /\ AllDigits(Tail(s)) THEN DecVal(Tail(s))
    ELSE IF s # <<>> /\ s[1] = "-" /\ AllDigits(Tail(s)) THEN 0 - DecVal(Tail(s))
    ELSE 0

\* strconv.ParseBool with its error dropped: anything unknown yields false
ParseBool(s) ==
    s \in { <<"1">>, <<"t">>, <<"T">>, <<"t", "r", "u", "e">>,
            <<"T", "R", "U", "E">>, <<"T", "r", "u", "e">> }

\* unicode.IsSpace on the bytes the model uses
IsSpace(c) == c \in {" ", "\n", "\t"}

RECURSIVE TrimLeft(_)
TrimLeft(s) ==
    IF s # <<>> /\ IsSpace(s[1]) THEN TrimLeft(Tail(s)) ELSE s

RECURSIVE TrimRight(_)
TrimRight(s) ==
    IF s # <<>> /\ IsSpace(s[Len(s)]) THEN TrimRight(SubSeq(s, 1, Len(s) - 1))
    ELSE s

\* strings.TrimSpace
TrimSpace(s) == TrimRight(TrimLeft(s))

(***************************************************************************)
(* reflect.Value: handles into the heap                                    *)
(***************************************************************************)
Invalid == 0     \* the zero reflect.Value

Kind(h, v) == IF v = Invalid THEN "Invalid" ELSE h[v].kind

IsNil(h, v) == h[v].nil

Elem(h, v) == h[v].elem

(***************************************************************************)
(* extractTypeInternal (transform.go 386-426)                              *)
(***************************************************************************)
\* one pass through the BEGIN label: either a return or a goto BEGIN
extractTypeStepNoIfaceFlag(h, current, nullable) ==
    CASE Kind(h, current) = "Ptr" ->
            IF IsNil(h, current)
            THEN [ret |-> TRUE, current |-> current, kind |-> "Ptr", nullable |-> TRUE]
            ELSE [ret |-> FALSE, current |-> Elem(h, current), kind |-> "", nullable |-> TRUE]
      [] Kind(h, current) = "Interface" ->
            IF IsNil(h, current)
            THEN [ret |-> TRUE, current |-> current, kind |-> "Interface", nullable |-> nullable]
            ELSE [ret |-> FALSE, current |-> Elem(h, current), kind |-> "", nullable |-> nullable]
      [] Kind(h, current) = "Invalid" ->
            [ret |-> TRUE, current |-> current, kind |-> "Invalid", nullable |-> nullable]
      [] OTHER ->
            [ret |-> TRUE, current |-> current, kind |-> Kind(h, current), nullable |-> nullable]

extractTypeStep(h, current, nullable) ==
    CASE Kind(h, current) = "Ptr" ->
            IF IsNil(h, current)
            THEN [ret |-> TRUE, current |-> current, kind |-> "Ptr", nullable |-> TRUE]
            ELSE [ret |-> FALSE, current |-> Elem(h, current), kind |-> "", nullable |-> TRUE]
      [] Kind(h, current) = "Interface" ->
            IF IsNil(h, current)
            THEN [ret |-> TRUE, current |-> current, kind |-> "Interface", nullable |-> TRUE]
            ELSE [ret |-> FALSE, current |-> Elem(h, current), kind |-> "", nullable |-> TRUE]
      [] Kind(h, current) = "Invalid" ->
            [ret |-> TRUE, current |-> current, kind |-> "Invalid", nullable |-> nullable]
      [] OTHER ->
            [ret |-> TRUE, current |-> current, kind |-> Kind(h, current), nullable |-> nullable]

\* the whole loop, for callers whose values are acyclic
RECURSIVE extractTypeInternal(_, _, _)
extractTypeInternal(h, current, nullable) ==
    LET s == extractTypeStep(h, current, nullable)
    IN  IF s.ret THEN [current |-> s.current, kind |-> s.kind, nullable |-> s.nullable]
        ELSE extractTypeInternal(h, s.current, s.nullable)

\* (*transform).ExtractType
ExtractType(h, field) == extractTypeInternal(h, field, FALSE)

(***************************************************************************)
(* Cells of the heap                                                       *)
(***************************************************************************)
NoFields == [n \in {} |-> 0]

Cell(k) == [kind |-> k, nil |-> FALSE, elem |-> Invalid, isTime |-> FALSE,
            fields |-> NoFields, elems |-> <<>>, keyKind |-> "", entries |-> NoFields]

PtrTo(a) == [Cell("Ptr") EXCEPT !.elem = a]
NilPtr == [Cell("Ptr") EXCEPT !.nil = TRUE]
IfaceOf(a) == [Cell("Interface") EXCEPT !.elem = a]
NilIface == [Cell("Interface") EXCEPT !.nil = TRUE]
StringCell == Cell("String")
StructOf(f) == [Cell("Struct") EXCEPT !.fields = f]
TimeOf(f) == [Cell("Struct") EXCEPT !.fields = f, !.isTime = TRUE]
SliceOf(e) == [Cell("Slice") EXCEPT !.elems = e]
MapOf(kk, m) == [Cell("Map") EXCEPT !.keyKind = kk, !.entries = m]

IsWrapper(c) == c.kind \in {"Ptr", "Interface"}

(***************************************************************************)
(* SpecUnwrap: ExtractType on every heap of pointer and interface layers,  *)
(* cyclic ones included, one pass through BEGIN per step                   *)
(***************************************************************************)
Addr == 1..MaxCells

WrapperCells ==
    {PtrTo(a) : a \in Addr} \cup {IfaceOf(a) : a \in Addr}
        \cup {NilPtr, NilIface, StringCell, StructOf(NoFields)}

\* an interface never holds an interface: its Elem is the dynamic value
WellTyped(h) ==
    \A a \in DOMAIN h :
        (h[a].kind = "Interface" /\ ~h[a].nil) => h[h[a].elem].kind # "Interface"

WrapperHeaps == {h \in [Addr -> WrapperCells] : WellTyped(h)}

IdleU ==
    /\ ustart = Invalid /\ ucur = Invalid /\ unullable = FALSE
    /\ ukind = "" /\ uiters = 0 /\ upc = "idle"

IdleR ==
    /\ root = Invalid /\ hops = <<>> /\ val = Invalid /\ namespace = <<>>
    /\ res = [current |-> Invalid, kind |-> "Invalid", nullable |-> FALSE, found |-> FALSE]
    /\ rpc = "idle"

IdleP ==
    /\ pool = {} /\ ctxs = <<>> /\ pc = <<>> /\ arg = <<>> /\ mem = <<>>
    /\ held = <<>> /\ call = <<>> /\ ret = <<>>

IdleE == elist = <<>> /\ eout = <<>> /\ epc = "idle"

\* const defaultTagName = "transform"
defaultTagName == <<"t", "r", "a", "n", "s", "f", "o", "r", "m">>

\* the nil func value of TagNameFunc and FuncCtx
NilFunc == "nil"

\* a Go map value: the nil map, or an allocated map with its entries
NilMap == [isNil |-> TRUE, m |-> NoFields]

\* var restrictedTags = map[string]struct{}{}
restrictedTags == {}

NoRegistration == [tag |-> <<>>, fn |-> NilFunc, before |-> NilMap]

NoOutcome == [kind |-> "none", msg |-> ""]

\* the fields of the *Transform that New() returns: transformtions is not
\* assigned and keeps the zero value of its map type
New ==
    /\ tagName = defaultTagName
    /\ tagNameFunc = NilFunc
    /\ hasTagNameFunc = FALSE
    /\ transformtions = NilMap

IdleT == New /\ gcall = NoRegistration /\ gret = NoOutcome

InitUnwrap ==
    /\ heap \in WrapperHeaps
    /\ ustart \in {Invalid} \cup Addr
    /\ ucur = ustart
    /\ unullable = FALSE
    /\ ukind = ""
    /\ uiters = 0
    /\ upc = "run"
    /\ IdleR /\ IdleP /\ IdleE /\ IdleT

\* `current = current.Elem(); goto BEGIN`
UnwrapStrip ==
    /\ upc = "run"
    /\ uiters <= MaxCells
    /\ LET s == extractTypeStep(heap, ucur, unullable)
       IN  /\ ~s.ret
           /\ ucur' = s.current
           /\ unullable' = s.nullable
    /\ uiters' = uiters + 1
    /\ UNCHANGED <<heap, ustart, ukind, upc, rvars, pvars, evars, tvars>>

\* one of the four return statements
UnwrapReturn ==
    /\ upc = "run"
    /\ LET s == extractTypeStep(heap, ucur, unullable)
       IN  /\ s.ret
           /\ ucur' = s.current
           /\ ukind' = s.kind
           /\ unullable' = s.nullable
    /\ upc' = "done"
    /\ UNCHANGED <<heap, ustart, uiters, rvars, pvars, evars, tvars>>

NextUnwrap == UnwrapStrip \/ UnwrapReturn

SpecUnwrap == InitUnwrap /\ [][NextUnwrap]_vars

(***************************************************************************)
(* Claims about the Type Unwrapper                                         *)
(***************************************************************************)
\* the pointer and interface cells of a heap: no value in it has more layers
WrapperCount(h) == Cardinality({a \in DOMAIN h : IsWrapper(h[a])})

\* the handle n layers below v
RECURSIVE StripN(_, _, _)
StripN(h, v, n) == IF n = 0 THEN v ELSE StripN(h, Elem(h, v), n - 1)

\* C8: ExtractType terminates on every value handle, having stripped no more
\* layers than the value has (values whose pointer/interface layers refer
\* back to themselves included): a running call has never stripped more
\* layers than the heap holds wrappers.
C8_StripsBoundedByDepth == uiters <= WrapperCount(heap)

\* C9: when ExtractType returns (v, kind, nullable): kind is Invalid iff the
\* handle reached is the invalid one; kind is Ptr or Interface only for a nil
\* wrapper of that kind; otherwise v is a concrete (non-wrapper) value, the
\* one below all the layers stripped, and kind is its own kind; nullable is
\* true iff the first thing met was a pointer or interface layer.
C9_ExtractTypeResult ==
    upc = "done" =>
        /\ ucur = StripN(heap, ustart, uiters)
        /\ (ukind = "Invalid") <=> (ucur = Invalid)
        /\ ukind \in {"Ptr", "Interface"} =>
               ucur # Invalid /\ heap[ucur].nil /\ heap[ucur].kind = ukind
        /\ ukind \notin {"Invalid", "Ptr", "Interface"} =>
               ucur # Invalid /\ ~IsWrapper(heap[ucur]) /\ ukind = heap[ucur].kind
        /\ unullable <=> (ustart # Invalid /\ IsWrapper(heap[ustart]))

\* a pointer to an interface holding a struct has been unwrapped
C9_Witness ==
    /\ upc = "done" /\ uiters = 2 /\ ukind = "Struct" /\ unullable
    /\ heap[ustart].kind = "Ptr" /\ heap[Elem(heap, ustart)].kind = "Interface"

(***************************************************************************)
(* getStructFieldOKInternal (transform.go 428-587)                         *)
(***************************************************************************)
\* reflect.Type.ConvertibleTo(timeType) of a struct value
ConvertibleToTimeNever(h, v) == FALSE

ConvertibleToTime(h, v) == h[v].isTime

\* reflect.Value.FieldByName: the zero Value when no field has that name
FieldByName(h, v, fld) ==
    IF fld \in DOMAIN h[v].fields THEN h[v].fields[fld] ELSE Invalid

\* reflect.Value.MapIndex: the zero Value when the key is absent
MapIndex(h, v, key) ==
    IF key \in DOMAIN h[v].entries THEN h[v].entries[key] ELSE Invalid

\* a decimal integer with an optional sign, as ParseInt and ParseFloat take it
IsSigned(s) ==
    \/ AllDigits(s)
    \/ s # <<>> /\ s[1] \in {"+", "-"} /\ AllDigits(Tail(s))

\* strconv.ParseInt(s, 10, bits) with its error dropped: 0 on a syntax
\* error, the nearest bound on a range error (the model writes no text
\* beyond the range of the sizes above 16 bits)
ParseInt(s, bits) ==
    LET n == Atoi(s)
        max == IF bits = 8 THEN 127 ELSE IF bits = 16 THEN 32767 ELSE n
        min == IF bits = 8 THEN -128 ELSE IF bits = 16 THEN -32768 ELSE n
    IN  IF ~IsSigned(s) THEN 0
        ELSE IF n > max THEN max
        ELSE IF n < min THEN min
        ELSE n

\* strconv.ParseUint(s, 10, bits) with its error dropped: no sign allowed
ParseUint(s, bits) ==
    LET n == DecVal(s)
        max == IF bits = 8 THEN 255 ELSE IF bits = 16 THEN 65535 ELSE n
    IN  IF ~AllDigits(s) THEN 0
        ELSE IF n > max THEN max
        ELSE n

\* strconv.ParseFloat with its error dropped, on texts without fraction or
\* exponent (the model writes no others)
ParseFloat(s) == IF IsSigned(s) THEN Atoi(s) ELSE 0

\* the switch on current.Type().Key().Kind(): the bracketed text as a key
ConvertKey(keyKind, key) ==
    CASE keyKind = "Int" -> Atoi(key)
      [] keyKind = "Int8" -> ParseInt(key, 8)
      [] keyKind = "Int16" -> ParseInt(key, 16)
      [] keyKind = "Int32" -> ParseInt(key, 32)
      [] keyKind = "Int64" -> ParseInt(key, 64)
      [] keyKind = "Uint" -> ParseUint(key, 0)
      [] keyKind = "Uint8" -> ParseUint(key, 8)
      [] keyKind = "Uint16" -> ParseUint(key, 16)
      [] keyKind = "Uint32" -> ParseUint(key, 32)
      [] keyKind = "Uint64" -> ParseUint(key, 64)
      [] keyKind = "Float32" -> ParseFloat(key)
      [] keyKind = "Float64" -> ParseFloat(key)
      [] keyKind = "Bool" -> ParseBool(key)
      [] OTHER -> key

\* case reflect.Struct, for a struct that is not time-like
structCaseNoBracket(h, current, ns0) ==
    LET idx == StringsIndex(ns0, namespaceSeparator)
        fld == IF idx # -1 THEN GoSlice(ns0, 0, idx) ELSE ns0
        ns == IF idx # -1 THEN GoSlice(ns0, idx + 1, Len(ns0)) ELSE <<>>
    IN  [val |-> FieldByName(h, current, fld), namespace |-> ns]

structCase(h, current, ns0) ==
    LET idx == StringsIndex(ns0, namespaceSeparator)
        fld1 == IF idx # -1 THEN GoSlice(ns0, 0, idx) ELSE ns0
        ns1 == IF idx # -1 THEN GoSlice(ns0, idx + 1, Len(ns0)) ELSE <<>>
        bracketIdx == StringsIndex(fld1, leftBracket)
        fld == IF bracketIdx # -1 THEN GoSlice(fld1, 0, bracketIdx) ELSE fld1
        ns == IF bracketIdx # -1 THEN GoSlice(ns0, bracketIdx, Len(ns0)) ELSE ns1
    IN  [val |-> FieldByName(h, current, fld), namespace |-> ns]

\* case reflect.Array, reflect.Slice
seqCaseOffByOne(h, current, ns0) ==
    LET idx == StringsIndex(ns0, leftBracket)
        idx2 == StringsIndex(ns0, rightBracket)
        arrIdx == Atoi(GoSlice(ns0, idx + 1, idx2))
        len == Len(h[current].elems)
        startIdx == IF idx2 + 1 < Len(ns0) /\ ns0[idx2 + 2] = namespaceSeparator
                    THEN idx2 + 2 ELSE idx2 + 1
    IN  IF ~SliceOK(ns0, idx + 1, idx2) THEN [outcome |-> "fault"]
        ELSE IF arrIdx > len THEN [outcome |-> "ret"]
        ELSE IF arrIdx < 0 \/ arrIdx >= len THEN [outcome |-> "fault"]
        ELSE [outcome |-> "goto", val |-> h[current].elems[arrIdx + 1],
              namespace |-> GoSlice(ns0, startIdx, Len(ns0))]

seqCase(h, current, ns0) ==
    LET idx == StringsIndex(ns0, leftBracket)
        idx2 == StringsIndex(ns0, rightBracket)
        arrIdx == Atoi(GoSlice(ns0, idx + 1, idx2))
        len == Len(h[current].elems)
        startIdx == IF idx2 + 1 < Len(ns0) /\ ns0[idx2 + 2] = namespaceSeparator
                    THEN idx2 + 2 ELSE idx2 + 1
    IN  IF ~SliceOK(ns0, idx + 1, idx2) THEN [outcome |-> "fault"]
        ELSE IF arrIdx >= len THEN [outcome |-> "ret"]
        ELSE IF arrIdx < 0 THEN [outcome |-> "fault"]
        ELSE [outcome |-> "goto", val |-> h[current].elems[arrIdx + 1],
              namespace |-> GoSlice(ns0, startIdx, Len(ns0))]

\* case reflect.Map
mapCase(h, current, ns0) ==
    LET idx == StringsIndex(ns0, leftBracket) + 1
        idx2 == StringsIndex(ns0, rightBracket)
        endIdx == IF idx2 + 1 < Len(ns0) /\ ns0[idx2 + 2] = namespaceSeparator
                  THEN idx2 + 1 ELSE idx2
        key == GoSlice(ns0, idx, idx2)
    IN  IF ~SliceOK(ns0, idx, idx2) THEN [outcome |-> "fault"]
        ELSE [outcome |-> "goto",
              val |-> MapIndex(h, current, ConvertKey(h[current].keyKind, key)),
              namespace |-> GoSlice(ns0, endIdx + 1, Len(ns0))]

(***************************************************************************)
(* SpecResolve: getStructFieldOKInternal, one pass through BEGIN per step, *)
(* on record graphs of structs, slices, maps, pointers and interfaces and  *)
(* on every namespace of at most MaxHops hops                              *)
(***************************************************************************)
\* what `current, kind, nullable = t.ExtractType(val)` leaves in the results
Extracted(h, v) ==
    LET e == ExtractType(h, v)
    IN  [current |-> e.current, kind |-> e.kind, nullable |-> e.nullable,
         found |-> FALSE]

\* `if kind == reflect.Invalid { return }`
ResolveReturnInvalid ==
    /\ rpc = "run"
    /\ Extracted(heap, val).kind = "Invalid"
    /\ res' = Extracted(heap, val)
    /\ rpc' = "ret"
    /\ UNCHANGED <<heap, root, hops, val, namespace, uvars, pvars, evars, tvars>>

\* `if namespace == "" { found = true; return }`
ResolveReturnFound ==
    /\ rpc = "run"
    /\ Extracted(heap, val).kind # "Invalid"
    /\ namespace = <<>>
    /\ res' = [Extracted(heap, val) EXCEPT !.found = TRUE]
    /\ rpc' = "ret"
    /\ UNCHANGED <<heap, root, hops, val, namespace, uvars, pvars, evars, tvars>>

\* `case reflect.Ptr, reflect.Interface: return`
ResolveReturnNil ==
    /\ rpc = "run"
    /\ namespace # <<>>
    /\ Extracted(heap, val).kind \in {"Ptr", "Interface"}
    /\ res' = Extracted(heap, val)
    /\ rpc' = "ret"
    /\ UNCHANGED <<heap, root, hops, val, namespace, uvars, pvars, evars, tvars>>

\* `case reflect.Struct:` with `!typ.ConvertibleTo(timeType)`
ResolveStruct ==
    /\ rpc = "run"
    /\ namespace # <<>>
    /\ LET e == Extracted(heap, val)
       IN  /\ e.kind = "Struct"
           /\ ~ConvertibleToTime(heap, e.current)
           /\ res' = e
           /\ val' = structCase(heap, e.current, namespace).val
           /\ namespace' = structCase(heap, e.current, namespace).namespace
    /\ UNCHANGED <<heap, root, hops, rpc, uvars, pvars, evars, tvars>>

\* `case reflect.Array, reflect.Slice:`
ResolveSeq ==
    /\ rpc = "run"
    /\ namespace # <<>>
    /\ LET e == Extracted(heap, val)
       IN  /\ e.kind \in {"Array", "Slice"}
           /\ res' = e
           /\ LET c == seqCase(heap, e.current, namespace)
              IN  IF c.outcome = "goto"
                  THEN /\ val' = c.val
                       /\ namespace' = c.namespace
                       /\ rpc' = "run"
                  ELSE /\ rpc' = c.outcome
                       /\ UNCHANGED <<val, namespace>>
    /\ UNCHANGED <<heap, root, hops, uvars, pvars, evars, tvars>>

\* `case reflect.Map:`
ResolveMap ==
    /\ rpc = "run"
    /\ namespace # <<>>
    /\ LET e == Extracted(heap, val)
       IN  /\ e.kind = "Map"
           /\ res' = e
           /\ LET c == mapCase(heap, e.current, namespace)
              IN  IF c.outcome = "goto"
                  THEN /\ val' = c.val
                       /\ namespace' = c.namespace
                       /\ rpc' = "run"
                  ELSE /\ rpc' = c.outcome
                       /\ UNCHANGED <<val, namespace>>
    /\ UNCHANGED <<heap, root, hops, uvars, pvars, evars, tvars>>

\* `panic("Invalid field namespace")`: a time-like struct or any other kind
ResolvePanic ==
    /\ rpc = "run"
    /\ namespace # <<>>
    /\ LET e == Extracted(heap, val)
       IN  /\ \/ e.kind = "Struct" /\ ConvertibleToTime(heap, e.current)
              \/ e.kind \notin {"Invalid", "Ptr", "Interface", "Struct",
                                "Array", "Slice", "Map"}
           /\ res' = e
    /\ rpc' = "panic"
    /\ UNCHANGED <<heap, root, hops, val, namespace, uvars, pvars, evars, tvars>>

NextResolve ==
    \/ ResolveReturnInvalid
    \/ ResolveReturnFound
    \/ ResolveReturnNil
    \/ ResolveStruct
    \/ ResolveSeq
    \/ ResolveMap
    \/ ResolvePanic

\* (*transform).GetStructFieldOK: the results without `nullable`
GetStructFieldOK == [current |-> res.current, kind |-> res.kind, found |-> res.found]

(***************************************************************************)
(* The record graphs and namespaces SpecResolve starts from                *)
(***************************************************************************)
\* the cells of a spine (cell i refers to cell i + 1); after them a string
Spine == {1, 2, 3}

Leaf == Cardinality(Spine) + 1

SpineCells(c) ==
    { PtrTo(c), IfaceOf(c),
      StructOf(<<"a">> :> c @@ <<"b">> :> Leaf),
      TimeOf(<<"a">> :> c),
      SliceOf(<<Leaf, c>>),
      MapOf("Int", 1 :> c),
      MapOf("String", <<"k">> :> c),
      MapOf("Bool", TRUE :> c) }

EndCells == {NilPtr, NilIface, StringCell}

\* a spine ends at its first cell that refers to nothing
RecordGraphs ==
    { h \in [1..Leaf -> UNION {SpineCells(c) : c \in 2..Leaf} \cup EndCells] :
        /\ h[Leaf] = StringCell
        /\ \A i \in 1..(Leaf - 1) :
              /\ h[i] \in SpineCells(i + 1) \cup EndCells
              /\ (i > 1 /\ h[i - 1] \in EndCells) => h[i] = StringCell
        /\ WellTyped(h) }

\* a hop: a field name, or a bracketed sequence index or map key
Field(n) == [t |-> "F", s |-> n]
Bracket(k) == [t |-> "B", s |-> k]

Hops ==
    { Field(<<"a">>), Field(<<"c">>),
      Bracket(<<"0">>), Bracket(<<"1">>), Bracket(<<"2">>),
      Bracket(<<"k">>), Bracket(<<"t", "r", "u", "e">>) }

HopLists == UNION {[1..n -> Hops] : n \in 0..MaxHops}

\* the namespace a hop list is written as: "a.b[2].c"
RECURSIVE Render(_, _)
Render(hs, first) ==
    IF hs = <<>> THEN <<>>
    ELSE LET hop == Head(hs)
             txt == IF hop.t = "F"
                    THEN (IF first THEN <<>> ELSE <<namespaceSeparator>>) \o hop.s
                    ELSE <<leftBracket>> \o hop.s \o <<rightBracket>>
         IN  txt \o Render(Tail(hs), FALSE)

InitResolve ==
    /\ heap \in RecordGraphs
    /\ root = 1
    /\ hops \in HopLists
    /\ val = root
    /\ namespace = Render(hops, TRUE)
    /\ res = [current |-> Invalid, kind |-> "Invalid", nullable |-> FALSE, found |-> FALSE]
    /\ rpc = "run"
    /\ IdleU /\ IdleP /\ IdleE /\ IdleT

SpecResolve == InitResolve /\ [][NextResolve]_vars

(***************************************************************************)
(* Claims about the Namespace Resolver.  Locate walks the hop list itself  *)
(* over the graph, hop by hop, without writing or reading a namespace.     *)
(***************************************************************************)
RECURSIVE Unwrapped(_, _)
Unwrapped(h, v) ==
    IF v # Invalid /\ IsWrapper(h[v]) /\ ~h[v].nil THEN Unwrapped(h, Elem(h, v)) ELSE v

\* the bracketed text that denotes a key of a map of this key kind
IsKeyText(keyKind, t) ==
    CASE keyKind = "Int" -> AllDigits(t)
      [] keyKind = "Bool" -> t \in {<<"t", "r", "u", "e">>, <<"f", "a", "l", "s", "e">>}
      [] OTHER -> TRUE

KeyOf(keyKind, t) ==
    CASE keyKind = "Int" -> DecVal(t)
      [] keyKind = "Bool" -> t = <<"t", "r", "u", "e">>
      [] OTHER -> t

\* "exists" with the value at the end of the hops; "absent" when a hop names
\* a field, index or key its container lacks, or a nil wrapper is met with
\* hops left; "mismatch" when a hop is not of the container's shape
RECURSIVE Locate(_, _, _)
Locate(h, v, hs) ==
    LET u == Unwrapped(h, v)
        hop == Head(hs)
    IN  IF hs = <<>> THEN [st |-> "exists", at |-> u]
        ELSE IF IsWrapper(h[u]) THEN [st |-> "absent", why |-> "nil"]
        ELSE IF h[u].kind = "Struct" /\ ~h[u].isTime /\ hop.t = "F"
        THEN IF hop.s \in DOMAIN h[u].fields
             THEN Locate(h, h[u].fields[hop.s], Tail(hs))
             ELSE [st |-> "absent", why |-> "field"]
        ELSE IF h[u].kind = "Slice" /\ hop.t = "B" /\ AllDigits(hop.s)
        THEN IF DecVal(hop.s) < Len(h[u].elems)
             THEN Locate(h, h[u].elems[DecVal(hop.s) + 1], Tail(hs))
             ELSE [st |-> "absent", why |-> "index"]
        ELSE IF h[u].kind = "Map" /\ hop.t = "B" /\ IsKeyText(h[u].keyKind, hop.s)
        THEN IF KeyOf(h[u].keyKind, hop.s) \in DOMAIN h[u].entries
             THEN Locate(h, h[u].entries[KeyOf(h[u].keyKind, hop.s)], Tail(hs))
             ELSE [st |-> "absent", why |-> "key"]
        ELSE [st |-> "mismatch"]

AtTimeLeaf ==
    /\ rpc \in {"ret", "panic", "fault"}
    /\ res.kind = "Struct"
    /\ heap[res.current].isTime
    /\ namespace # <<>>

\* C7 as claimed: a time-like struct met with namespace left is answered
\* found=false.
C7_TimeLeafNotFound == AtTimeLeaf => (rpc = "ret" /\ ~res.found)

\* C7 as the code has it: a time-like struct met with namespace left ends the
\* call in the panic "Invalid field namespace"; no field of it is looked up
\* (val still refers to the struct, the namespace is not consumed).
C7_TimeLeafPanics ==
    /\ AtTimeLeaf => (rpc = "panic" /\ Unwrapped(heap, val) = res.current)
    /\ \A i \in Spine :
          (rpc # "idle" /\ heap[i].isTime) =>
              \A j \in Spine : (j > i => val # j /\ res.current # j)

\* the panic has been raised on a time-like struct reached through a field
C7_Witness ==
    /\ rpc = "panic" /\ AtTimeLeaf
    /\ hops = <<Field(<<"a">>), Field(<<"a">>)>>
    /\ heap[1].kind = "Struct" /\ ~heap[1].isTime /\ heap[2].isTime

(***************************************************************************)
(* New, StructCtx and the sync.Pool of scratch contexts                    *)
(* (transform.go 243-307, 380-381)                                         *)
(***************************************************************************)
Callers == {"g1", "g2"}

CtxIds == 1..MaxCtx

\* the zero *transform: a context that is not allocated
NoCtx == [alloc |-> FALSE, top |-> Invalid, ns |-> <<>>, actualNs |-> <<>>, errs |-> <<>>]

\* pool.New with a stale entry left in the error list
newTransformStale == [NoCtx EXCEPT !.alloc = TRUE, !.errs = <<"stale">>]

\* pool.New: &transform{t: t, ns: make([]byte, 0, 64), actualNs: make([]byte, 0, 64)}
newTransform == [NoCtx EXCEPT !.alloc = TRUE]

\* what sync.Pool.Get leaves idle when it hands out context id
poolGetKeep(p, id) == p

poolGet(p, id) == p \ {id}

\* sync.Pool.Put
poolPut(p, id) == p \cup {id}

\* lines 283-292 without the time check
acceptsRootAnyStruct(h, s) ==
    LET v == IF Kind(h, s) = "Ptr" /\ ~IsNil(h, s) THEN Elem(h, s) ELSE s
    IN  Kind(h, v) = "Struct"

\* lines 283-292: whether StructCtx goes on to traverse s
acceptsRoot(h, s) ==
    LET v == IF Kind(h, s) = "Ptr" /\ ~IsNil(h, s) THEN Elem(h, s) ELSE s
    IN  ~(Kind(h, v) # "Struct" \/ ConvertibleToTime(h, v))

\* transformStruct: its body is empty, the context and the fields stay as they are
transformStruct(td, fields) == [td |-> td, fields |-> fields]

NoReturn == [kind |-> "none", errs |-> <<>>]

(***************************************************************************)
(* SpecPool: goroutines calling StructCtx on one Transform, step by step   *)
(***************************************************************************)
\* the values passed as s: 0 is the untyped nil
ArgHeap ==
    <<PtrTo(2), StructOf(<<"N", "a", "m", "e">> :> 3), StringCell,
      TimeOf(NoFields), PtrTo(4), NilPtr, PtrTo(1)>>

Chains == {<<>>, <<"trim", "lowercase">>, <<"uppercase", "ltrim">>}

Arguments ==
    { [s |-> h, tag |-> <<>>, value |-> <<>>] : h \in {0, 3, 4, 5, 6, 7} }
        \cup { [s |-> h, tag |-> t, value |-> <<" ", "T", "e", " ">>] :
                   h \in {1, 2}, t \in Chains }

NoArg == [s |-> Invalid, tag |-> <<>>, value |-> <<>>]

NoCall == [ns |-> <<>>, structNs |-> <<>>]

InitPool ==
    /\ heap = ArgHeap
    /\ pool = {}
    /\ ctxs = [i \in CtxIds |-> NoCtx]
    /\ pc = [c \in Callers |-> "idle"]
    /\ arg = [c \in Callers |-> NoArg]
    /\ mem = [c \in Callers |-> <<>>]
    /\ held = [c \in Callers |-> 0]
    /\ call = [c \in Callers |-> NoCall]
    /\ ret = [c \in Callers |-> NoReturn]
    /\ IdleU /\ IdleR /\ IdleE /\ IdleT

\* lines 283-292, the root is refused: return &InvalidTransformError{...}
StructCtxReject(c) ==
    /\ pc[c] = "idle"
    /\ \E a \in Arguments :
          /\ ~acceptsRoot(heap, a.s)
          /\ arg' = [arg EXCEPT ![c] = a]
          /\ mem' = [mem EXCEPT ![c] = a.value]
    /\ ret' = [ret EXCEPT ![c] = [kind |-> "InvalidTransformError", errs |-> <<>>]]
    /\ pc' = [pc EXCEPT ![c] = "done"]
    /\ call' = [call EXCEPT ![c] = NoCall]
    /\ UNCHANGED <<heap, pool, ctxs, held, uvars, rvars, evars, tvars>>

\* lines 283-292, the root is accepted
StructCtxEnter(c) ==
    /\ pc[c] = "idle"
    /\ \E a \in Arguments :
          /\ acceptsRoot(heap, a.s)
          /\ arg' = [arg EXCEPT ![c] = a]
          /\ mem' = [mem EXCEPT ![c] = a.value]
    /\ ret' = [ret EXCEPT ![c] = NoReturn]
    /\ pc' = [pc EXCEPT ![c] = "get"]
    /\ call' = [call EXCEPT ![c] = NoCall]
    /\ UNCHANGED <<heap, pool, ctxs, held, uvars, rvars, evars, tvars>>

\* line 294, t.pool.Get() hands out an idle context
PoolGetIdle(c) ==
    /\ pc[c] = "get"
    /\ \E id \in pool :
          /\ pool' = poolGet(pool, id)
          /\ held' = [held EXCEPT ![c] = id]
    /\ pc' = [pc EXCEPT ![c] = "top"]
    /\ UNCHANGED <<heap, ctxs, arg, mem, call, ret, uvars, rvars, evars, tvars>>

\* line 294, t.pool.Get() finds nothing to hand out and calls New
PoolGetNew(c) ==
    /\ pc[c] = "get"
    /\ \E id \in CtxIds :
          /\ ~ctxs[id].alloc
          /\ ctxs' = [ctxs EXCEPT ![id] = newTransform]
          /\ held' = [held EXCEPT ![c] = id]
    /\ pc' = [pc EXCEPT ![c] = "top"]
    /\ UNCHANGED <<heap, pool, arg, mem, call, ret, uvars, rvars, evars, tvars>>

\* the runtime drops an idle context of the pool (a garbage collection)
PoolDrop ==
    /\ \E id \in pool :
          /\ pool' = pool \ {id}
          /\ ctxs' = [ctxs EXCEPT ![id] = NoCtx]
    /\ UNCHANGED <<heap, pc, arg, mem, held, call, ret, uvars, rvars, evars, tvars>>

\* line 295, td.top = top
StructCtxTop(c) ==
    /\ pc[c] = "top"
    /\ ctxs' = [ctxs EXCEPT ![held[c]].top = arg[c].s]
    /\ call' = [call EXCEPT ![c] = [ns |-> GoSlice(ctxs[held[c]].ns, 0, 0),
                                    structNs |-> GoSlice(ctxs[held[c]].actualNs, 0, 0)]]
    /\ pc' = [pc EXCEPT ![c] = "traverse"]
    /\ UNCHANGED <<heap, pool, arg, mem, held, ret, uvars, rvars, evars, tvars>>

\* line 296, td.transformStruct(ctx, top, val, val.Type(), td.ns[0:0], td.actualNs[0:0])
StructCtxTraverse(c) ==
    /\ pc[c] = "traverse"
    /\ LET r == transformStruct(ctxs[held[c]], mem[c])
       IN  /\ ctxs' = [ctxs EXCEPT ![held[c]] = r.td]
           /\ mem' = [mem EXCEPT ![c] = r.fields]
    /\ pc' = [pc EXCEPT ![c] = "collect"]
    /\ UNCHANGED <<heap, pool, arg, held, call, ret, uvars, rvars, evars, tvars>>

\* lines 298-302, if len(td.errs) > 0 { err = td.errs; td.errs = nil }
StructCtxCollect(c) ==
    /\ pc[c] = "collect"
    /\ IF Len(ctxs[held[c]].errs) > 0
       THEN /\ ret' = [ret EXCEPT ![c] = [kind |-> "TransformErrors",
                                          errs |-> ctxs[held[c]].errs]]
            /\ ctxs' = [ctxs EXCEPT ![held[c]].errs = <<>>]
       ELSE /\ ret' = [ret EXCEPT ![c] = [kind |-> "nil", errs |-> <<>>]]
            /\ UNCHANGED ctxs
    /\ pc' = [pc EXCEPT ![c] = "put"]
    /\ UNCHANGED <<heap, pool, arg, mem, held, call, uvars, rvars, evars, tvars>>

\* lines 304-306, t.pool.Put(td); return err
StructCtxPut(c) ==
    /\ pc[c] = "put"
    /\ pool' = poolPut(pool, held[c])
    /\ held' = [held EXCEPT ![c] = 0]
    /\ pc' = [pc EXCEPT ![c] = "done"]
    /\ UNCHANGED <<heap, ctxs, arg, mem, call, ret, uvars, rvars, evars, tvars>>

\* the caller has its answer and may call again
CallerNext(c) ==
    /\ pc[c] = "done"
    /\ pc' = [pc EXCEPT ![c] = "idle"]
    /\ UNCHANGED <<heap, pool, ctxs, arg, mem, held, call, ret, uvars, rvars, evars, tvars>>

NextPool ==
    \/ \E c \in Callers : StructCtxReject(c)
    \/ \E c \in Callers : StructCtxEnter(c)
    \/ \E c \in Callers : PoolGetIdle(c)
    \/ \E c \in Callers : PoolGetNew(c)
    \/ PoolDrop
    \/ \E c \in Callers : StructCtxTop(c)
    \/ \E c \in Callers : StructCtxTraverse(c)
    \/ \E c \in Callers : StructCtxCollect(c)
    \/ \E c \in Callers : StructCtxPut(c)
    \/ \E c \in Callers : CallerNext(c)

SpecPool == InitPool /\ [][NextPool]_vars

(***************************************************************************)
(* The directives of the README, as the claims about Struct need them      *)
(***************************************************************************)
UpperLetters ==
    <<"A", "B", "C", "D", "E", "F", "G", "H", "I", "J", "K", "L", "M",
      "N", "O", "P", "Q", "R", "S", "T", "U", "V", "W", "X", "Y", "Z">>

LowerLetters ==
    <<"a", "b", "c", "d", "e", "f", "g", "h", "i", "j", "k", "l", "m",
      "n", "o", "p", "q", "r", "s", "t", "u", "v", "w", "x", "y", "z">>

ToLowerChar(ch) ==
    IF \E i \in 1..26 : UpperLetters[i] = ch
    THEN LowerLetters[CHOOSE i \in 1..26 : UpperLetters[i] = ch]
    ELSE ch

ToUpperChar(ch) ==
    IF \E i \in 1..26 : LowerLetters[i] = ch
    THEN UpperLetters[CHOOSE i \in 1..26 : LowerLetters[i] = ch]
    ELSE ch

\* one directive applied to a string field
Directive(name, t) ==
    CASE name = "trim" -> TrimSpace(t)
      [] name = "ltrim" -> TrimLeft(t)
      [] name = "rtrim" -> TrimRight(t)
      [] name = "lowercase" -> [i \in 1..Len(t) |-> ToLowerChar(t[i])]
      [] name = "uppercase" -> [i \in 1..Len(t) |-> ToUpperChar(t[i])]
      [] OTHER -> t

\* the directives of a chain in declared order, each on the previous result
RECURSIVE ApplyChain(_, _)
ApplyChain(chain, t) ==
    IF chain = <<>> THEN t
    ELSE ApplyChain(Tail(chain), Directive(Head(chain), t))

(***************************************************************************)
(* Claims about Struct/StructCtx and the pool                              *)
(***************************************************************************)
ByPointer(a) == Kind(heap, a.s) = "Ptr"

\* C1: when Struct returns on a struct passed by pointer, each field with a
\* non-empty directive chain holds the chain applied, in declared order, to
\* the field's original value.
C1_ChainApplied ==
    \A c \in Callers :
        (pc[c] = "done" /\ ret[c].kind = "nil" /\ ByPointer(arg[c]) /\ arg[c].tag # <<>>)
            => mem[c] = ApplyChain(arg[c].tag, arg[c].value)

\* the root is not a struct or pointer to struct, is time-like, or is null
NonTraversableOrNull(a) ==
    LET v == Unwrapped(heap, a.s)
    IN  \/ a.s = Invalid
        \/ v = Invalid
        \/ heap[v].kind # "Struct"
        \/ heap[v].isTime
        \/ (heap[a.s].kind = "Ptr" /\ heap[Elem(heap, a.s)].kind = "Ptr")

\* the root is a struct passed by value
ByValue(a) == a.s # Invalid /\ heap[a.s].kind = "Struct"

\* c is inside a call of StructCtx or has had one answered
Called(c) == pc[c] # "idle" \/ ret[c].kind # "none"

\* the call of c was answered with a usage error before anything else happened
RefusedAtOnce(c) ==
    /\ pc[c] \in {"done", "idle"}
    /\ ret[c].kind = "InvalidTransformError"
    /\ held[c] = 0
    /\ mem[c] = arg[c].value

C3_NoLeakBetweenCalls ==
    /\ \A id \in pool : ctxs[id].errs = <<>>
    /\ \A c \in Callers :
          /\ pc[c] = "traverse" =>
                /\ ctxs[held[c]].errs = <<>>
                /\ call[c].ns = <<>>
                /\ call[c].structNs = <<>>
          /\ ret[c].errs = <<>>

\* a call is about to traverse with a context an earlier call used and
\* released (its top still names that call's root)
C3_Witness ==
    /\ pc["g2"] = "top" /\ arg["g2"].s = 1
    /\ ctxs[held["g2"]].top = 2
    /\ pc["g1"] = "done" /\ arg["g1"].s = 2 /\ ret["g1"].kind = "nil"

\* C4: no scratch context is held by two calls at once, a held context is
\* not idle in the pool, and from `td.top = top` until release its top is
\* the holder's own root.
C4_ExclusiveContext ==
    \A c \in Callers :
        held[c] # 0 =>
            /\ \A d \in Callers \ {c} : held[d] # held[c]
            /\ held[c] \notin pool
            /\ ctxs[held[c]].alloc
            /\ pc[c] \in {"traverse", "collect", "put"} => ctxs[held[c]].top = arg[c].s

\* two calls with different roots traverse at once, each with its context
C4_Witness ==
    /\ pc["g1"] = "traverse" /\ pc["g2"] = "traverse"
    /\ arg["g1"].s = 1 /\ arg["g2"].s = 2
    /\ held["g1"] # 0 /\ held["g2"] # 0

(***************************************************************************)
(* TransformErrors.Error() (transform.go 87-96)                            *)
(***************************************************************************)
\* the loop of lines 90-93: each rendering and a newline after it
RECURSIVE WriteAll(_)
WriteAll(t) ==
    IF t = <<>> THEN <<>>
    ELSE Head(t) \o <<"\n">> \o WriteAll(Tail(t))

\* TransformErrors.Error
ErrorString(t) == TrimSpace(WriteAll(t))

(***************************************************************************)
(* SpecErr: Error() on every list of at most MaxErrs renderings            *)
(***************************************************************************)
\* what a FieldError's Error() may return
Renderings ==
    { <<"K", "e", "y">>, <<"f", "a", "i", "l", "e", "d", " ">>, <<" ", "x">>, <<>> }

InitErr ==
    /\ elist \in UNION {[1..n -> Renderings] : n \in 0..MaxErrs}
    /\ eout = <<>>
    /\ epc = "call"
    /\ heap = <<>>
    /\ IdleU /\ IdleR /\ IdleP /\ IdleT

ErrorCall ==
    /\ epc = "call"
    /\ eout' = ErrorString(elist)
    /\ epc' = "done"
    /\ UNCHANGED <<heap, elist, uvars, rvars, pvars, tvars>>

NextErr == ErrorCall

SpecErr == InitErr /\ [][NextErr]_vars

\* the renderings joined by single newlines, nothing else added or removed
RECURSIVE JoinLines(_)
JoinLines(t) ==
    IF t = <<>> THEN <<>>
    ELSE IF Len(t) = 1 THEN t[1]
    ELSE Head(t) \o <<"\n">> \o JoinLines(Tail(t))

\* C10: Error() returns exactly the renderings in list order joined by a
\* single newline, no character of a rendering added, removed or altered;
\* the empty list renders as the empty string.
C10_ErrorIsJoin == epc = "done" => eout = JoinLines(elist)

(***************************************************************************)
(* SpecRegister: configuration calls on one Transform built by New()       *)
(***************************************************************************)
TagNames == {defaultTagName, <<"j", "s", "o", "n">>, <<>>}

TagNameFuncs == {NilFunc, "jsonName", "yamlName"}

Tags == {<<>>, <<"t", "r", "i", "m">>, <<"l", "c">>}

FuncCtxs == {NilFunc, "trimFunc", "toLower"}

errorsNew(text) == [kind |-> "error", msg |-> text]

\* `m[key] = v`: a run-time panic on the nil map, the entry set otherwise
mapAssign(m, key, v) ==
    IF m.isNil
    THEN [panic |-> TRUE, m |-> m]
    ELSE [panic |-> FALSE,
          m |-> [m EXCEPT !.m = [k \in (DOMAIN m.m) \cup {key} |->
                                   IF k = key THEN v ELSE m.m[k]]]]

internalTransformationFuncWrapper(fn) == [fn |-> fn]

\* registerTransformer(tag, fn): the outcome and the registry it leaves
registerTransformer(t, tag, fn) ==
    IF Len(tag) = 0
    THEN [ret |-> errorsNew("function Key cannot be empty"), transformtions |-> t]
    ELSE IF fn = NilFunc
    THEN [ret |-> errorsNew("function cannot be empty"), transformtions |-> t]
    ELSE LET w == mapAssign(t, tag, internalTransformationFuncWrapper(fn))
         IN  IF w.panic
             THEN [ret |-> [kind |-> "panic", msg |-> "assignment to entry in nil map"],
                   transformtions |-> w.m]
             ELSE [ret |-> [kind |-> "nil", msg |-> ""], transformtions |-> w.m]

InitRegister ==
    /\ New
    /\ gcall = NoRegistration
    /\ gret = NoOutcome
    /\ heap = <<>>
    /\ IdleU /\ IdleR /\ IdleP /\ IdleE

SetTagName ==
    \E name \in TagNames :
        /\ tagName' = name
        /\ UNCHANGED <<heap, tagNameFunc, hasTagNameFunc, transformtions, gcall, gret,
                       uvars, rvars, pvars, evars>>

RegisterTagNameFunc ==
    \E fn \in TagNameFuncs :
        /\ tagNameFunc' = fn
        /\ hasTagNameFunc' = TRUE
        /\ UNCHANGED <<heap, tagName, transformtions, gcall, gret,
                       uvars, rvars, pvars, evars>>

RegisterCall ==
    \E tag \in Tags, fn \in FuncCtxs :
        LET r == registerTransformer(transformtions, tag, fn)
        IN  /\ gcall' = [tag |-> tag, fn |-> fn, before |-> transformtions]
            /\ gret' = r.ret
            /\ transformtions' = r.transformtions
            /\ UNCHANGED <<heap, tagName, tagNameFunc, hasTagNameFunc,
                           uvars, rvars, pvars, evars>>

NextRegister == SetTagName \/ RegisterTagNameFunc \/ RegisterCall

SpecRegister == InitRegister /\ [][NextRegister]_vars

\* C11: every finished registerTransformer call on a Transform built by New
\* either is a failing case (empty name, nil function, or a name in the
\* reserved set), returned an error and left the registry as it was, or is
\* not a failing case, returned no error and left the registry mapping the
\* name to the function.
C11_RegisterContract ==
    gret.kind # "none" =>
        LET failing == \/ Len(gcall.tag) = 0
                       \/ gcall.fn = NilFunc
                       \/ gcall.tag \in restrictedTags
        IN  IF failing
            THEN gret.kind = "error" /\ transformtions = gcall.before
            ELSE /\ gret.kind = "nil"
                 /\ ~transformtions.isNil
                 /\ gcall.tag \in DOMAIN transformtions.m
                 /\ transformtions.m[gcall.tag] = internalTransformationFuncWrapper(gcall.fn)

(***************************************************************************)
(* SpecResolveRaw: getStructFieldOKInternal on namespaces that are any     *)
(* character string, well formed or not, of at most MaxRaw characters      *)
(***************************************************************************)
MaxRaw == 4

\* a field letter, the separator, the brackets, a digit and a sign
RawChars == {"a", namespaceSeparator, leftBracket, rightBracket, "1", "-"}

RawNamespaces == UNION {[1..n -> RawChars] : n \in 0..MaxRaw}

\* the record graphs whose root holds leaves or one more layer
RawGraphs == {h \in RecordGraphs : h[Leaf - 1] = StringCell}

InitResolveRaw ==
    /\ heap \in RawGraphs
    /\ root = 1
    /\ hops = <<>>
    /\ val = root
    /\ namespace \in RawNamespaces
    /\ res = [current |-> Invalid, kind |-> "Invalid", nullable |-> FALSE, found |-> FALSE]
    /\ rpc = "run"
    /\ IdleU /\ IdleP /\ IdleE /\ IdleT

SpecResolveRaw == InitResolveRaw /\ [][NextResolve]_vars

\* C12: whatever the record graph and the namespace string, the lookup is
\* running, has returned, or has panicked with "Invalid field namespace";
\* it never ends in another run-time fault (a string slice out of range, a
\* sequence index out of range).
C12_OnlyReturnOrNamespacePanic == rpc \in {"run", "ret", "panic"}

====
